---- MODULE Spec2Model ----
(***************************************************************************)
(* Model of src/main.js: a Telegram bot that tracks the ES token balance   *)
(* of Solana addresses per chat.                                           *)
(*                                                                         *)
(* The program is single-threaded JavaScript.  Every handler runs          *)
(* synchronously up to its next `await` on an I/O promise (a ledger fetch  *)
(* or a Telegram call).  One action of this model is therefore the code    *)
(* that runs between two such suspension points: the completion of one     *)
(* I/O call up to the start of the next one.  The outcome of every I/O     *)
(* call (what the ledger answers, whether Telegram accepts a message) is   *)
(* an input, chosen with \E.                                               *)
(***************************************************************************)
EXTENDS Integers, Sequences, FiniteSets, TLC

(***************************************************************************)
(* Bounds of the model.                                                    *)
(***************************************************************************)
\* Whole-token balances the ledger may report: 0 .. MaxBalance.
MaxBalance == 1
\* Number of timer firings (monitorBalances invocations) explored.
MaxCycles == 2
\* Number of /add commands explored.
MaxAdds == 2
\* Number of invocations (cycles and /add handlers) suspended at one time.
MaxInFlight == 2

(***************************************************************************)
(* Values.                                                                 *)
(***************************************************************************)
\* Math.pow(10, 6): raw ledger amounts are divided by this.
DECIMALS == 1000000
\* The JavaScript null a failed getTokenBalance returns as balance.
Null == -1
\* The chatId main() passes for seed addresses (null, falsy like 0).
NullChat == 0
\* tokenAccount: null
NoAccount == <<>>

\* ctx.chat.id of the chats that talk to the bot.
Chats == {1, 2}
\* Strings that new PublicKey(address) accepts.
ValidAddresses == {"A1", "A2"}
\* Strings that new PublicKey(address) rejects.
InvalidAddresses == {"xx"}
\* ctx.message.text.split(' ')[1], when present.
AddressArgs == ValidAddresses \cup InvalidAddresses

\* require('./config/addrs.config'): the seed list.
ADDRESSES_TO_CHECK == <<"A1">>

\* What getAccount can do: resolve with an account holding a raw amount,
\* throw TokenAccountNotFoundError, or throw anything else.
LedgerResults ==
    {[kind |-> "found", amount |-> b * DECIMALS] : b \in 0..MaxBalance}
    \cup {[kind |-> "notFound", amount |-> 0], [kind |-> "error", amount |-> 0]}

VARIABLES
    mainPc,             \* index of the seed main() is probing; Len+1 once launched
    userAddresses,      \* Map chatId -> Set(address), in insertion order
    lastBalances,       \* Map address -> balance (or Null)
    knownTokenAccounts, \* Map address -> Set(token account)
    cycles,             \* the monitorBalances invocations, by firing order
    adds,               \* the /add handler invocations, by arrival order
    alive,              \* FALSE once an unhandled rejection ended the process
    out,                \* what the last step logged and sent
    fired,              \* history: addresses whose new-account detection fired
    prevOk,             \* history: per address, the last successful probe
    lastOk              \* history: per address, the balance getTokenBalance
                        \* last returned that was not null

vars == <<mainPc, userAddresses, lastBalances, knownTokenAccounts,
          cycles, adds, alive, out, fired, prevOk, lastOk>>

(***************************************************************************)
(* Maps and sets in insertion order.                                       *)
(***************************************************************************)
EmptyMap == [x \in {} |-> 0]

MapSet(m, k, v) == [x \in DOMAIN m \cup {k} |-> IF x = k THEN v ELSE m[x]]

SetHas(s, x) == \E k \in 1..Len(s) : s[k] = x

SetAdd(s, x) == IF SetHas(s, x) THEN s ELSE Append(s, x)

\* userAddresses.has(chatId)
HasChat(reg, chatId) == \E k \in 1..Len(reg) : reg[k].chat = chatId

\* if (!userAddresses.has(chatId)) userAddresses.set(chatId, new Set())
EnsureChat(reg, chatId) ==
    IF HasChat(reg, chatId) THEN reg
    ELSE Append(reg, [chat |-> chatId, addrs |-> <<>>])

\* userAddresses.get(chatId).add(address)
AddAddress(reg, chatId, address) ==
    LET k == CHOOSE n \in 1..Len(reg) : reg[n].chat = chatId
    IN  [reg EXCEPT ![k].addrs = SetAdd(@, address)]

Register(reg, chatId, address) ==
    AddAddress(EnsureChat(reg, chatId), chatId, address)

\* Whether (chatId, address) is a tracked pair.
Tracked(reg, chatId, address) ==
    \E k \in 1..Len(reg) : reg[k].chat = chatId /\ SetHas(reg[k].addrs, address)

(***************************************************************************)
(* getTokenBalance.                                                        *)
(***************************************************************************)
\* new PublicKey(address) does not throw
Valid(address) == address \in ValidAddresses

\* getAssociatedTokenAddressSync(...).toBase58(): a pure function of the owner
Ata(address) == <<"ata", address>>

\* Number(tokenAccount.amount) / Math.pow(10, 6), or 0 when not found
FetchBalance(res) == IF res.kind = "found" THEN res.amount \div DECIMALS ELSE 0

TokenAccountExists(res) == res.kind = "found"

\* the inner catch rethrows everything but TokenAccountNotFoundError
FetchThrows(res) == res.kind = "error"

\* knownTokenAccounts.get(address) || new Set()
PreviousAccounts(known, address) ==
    IF address \in DOMAIN known THEN known[address] ELSE {}

\* tokenAccountExists && !previousAccounts.has(ata)
NewAccountDetected(res, known, address) ==
    /\ TokenAccountExists(res)
    /\ Ata(address) \notin PreviousAccounts(known, address)

\* Mutant of Truthy: the send is not guarded by `if (chatId)`.
TruthyNullToo(chatId) == chatId = NullChat \/ chatId # 0

\* if (chatId)
Truthy(chatId) == chatId # NullChat /\ chatId # 0

\* return { balance, tokenAccount: tokenAccountExists ? ata : null }
Success(balance, exists, address) ==
    [balance |-> balance,
     tokenAccount |-> IF exists THEN Ata(address) ELSE NoAccount]

\* the outer catch: return { balance: null, tokenAccount: null }
Failure == [balance |-> Null, tokenAccount |-> NoAccount]

(***************************************************************************)
(* What the callers do with the result.                                    *)
(***************************************************************************)
\* lastBalances.set(address, balance)
SetBalance(lb, address, balance) == MapSet(lb, address, balance)

\* if (tokenAccount) knownTokenAccounts.set(address, new Set([tokenAccount]))
SetKnown(known, address, tokenAccount) ==
    IF tokenAccount # NoAccount
    THEN MapSet(known, address, {tokenAccount})
    ELSE known

\* Mutant of LastBalance: lastBalances.get(address) without the `|| 0`.
LastBalanceNoDefault(lb, address) ==
    IF address \in DOMAIN lb THEN lb[address] ELSE Null

\* lastBalances.get(address) || 0
LastBalance(lb, address) ==
    IF address \in DOMAIN lb /\ lb[address] # Null /\ lb[address] # 0
    THEN lb[address]
    ELSE 0

\* currentBalance !== lastBalance
Changed(currentBalance, lastBalance) == currentBalance # lastBalance

(***************************************************************************)
(* getTokenBalance, step by step.                                          *)
(***************************************************************************)
\* getTokenBalance from the completion of getAccount to its return or to its
\* await on sendMessage: await says which, ret is what it returns (after a
\* successful send, when await).
ProbeStep(res, known, address, chatId) ==
    IF FetchThrows(res)
    THEN [await |-> FALSE, detected |-> FALSE, ret |-> Failure]
    ELSE LET d == NewAccountDetected(res, known, address)
             r == Success(FetchBalance(res), TokenAccountExists(res), address)
         IN  [await |-> d /\ Truthy(chatId), detected |-> d, ret |-> r]

\* getTokenBalance after its sendMessage settled: a rejection lands in the
\* outer catch.
SendNewResult(ok, balance, address) ==
    IF ok THEN Success(balance, TRUE, address) ELSE Failure

(***************************************************************************)
(* Records of the processes.                                               *)
(***************************************************************************)
Launched == Len(ADDRESSES_TO_CHECK) + 1

ZeroSnap == [a \in ValidAddresses |-> 0]

\* A monitorBalances invocation: where it is suspended (pc), the entry of
\* the registry it is at (i, j), its locals (cur, last), and as history the
\* balances stored at its start for the addresses several chats tracked
\* then (snap), those of them all of whose probes in it so far succeeded
\* with a balance other than snap's while no other invocation wrote their
\* store (good), and the size of each chat's Set at its start (start).
CycleRec(pc, i, j, cur, last, snap, good, start) ==
    [pc |-> pc, i |-> i, j |-> j, cur |-> cur, last |-> last,
     snap |-> snap, good |-> good, start |-> start]

CycleUnstarted == CycleRec("unstarted", 0, 0, 0, 0, ZeroSnap, {}, <<>>)
CycleDone == CycleRec("done", 0, 0, 0, 0, ZeroSnap, {}, <<>>)
CycleAborted == CycleRec("aborted", 0, 0, 0, 0, ZeroSnap, {}, <<>>)

CycleActive(cy) == cy.pc \in {"getAccount", "sendNew", "sendChange"}

\* An /add handler invocation: where it is suspended, its chatId and address,
\* the balance its probe fetched (cur), and as history whether it added a
\* pair the registry did not hold (mutated).
AddRec(pc, chat, addr, cur, mutated) ==
    [pc |-> pc, chat |-> chat, addr |-> addr, cur |-> cur, mutated |-> mutated]

AddUnstarted == AddRec("unstarted", 0, "", 0, FALSE)
AddDone == AddRec("done", 0, "", 0, FALSE)

AddActive(a) == a.pc \in {"reply49", "getAccount", "sendNew", "reply60"}

\* The chats the state knows of.  Chat ids are opaque keys to the program, so
\* a chat it has no trace of is given the lowest id that is free.
SeenChats ==
    {userAddresses[k].chat : k \in 1..Len(userAddresses)}
    \cup {adds[h].chat : h \in {g \in 1..MaxAdds : AddActive(adds[g])}}

FreshChats ==
    {n \in Chats \ SeenChats : \A m \in Chats \ SeenChats : n <= m}

\* The invocations that are suspended at an await.
InFlight ==
    Cardinality({c \in 1..MaxCycles : CycleActive(cycles[c])})
    + Cardinality({h \in 1..MaxAdds : AddActive(adds[h])})

\* What one step logs and sends.
Out(op, chat, addr) ==
    [op |-> op, chat |-> chat, addr |-> addr,
     ledger |-> "none",     \* what getAccount did, if it completed in this step
     returned |-> FALSE,    \* whether getTokenBalance returned in this step
     balance |-> Null,      \* the balance it returned
     detected |-> FALSE,    \* "New token account detected" was logged
     again |-> FALSE,       \* ... and had been logged for this address before
     sent |-> "none",       \* the Telegram call started: new, change, added, invalid
     prev |-> 0, cur |-> 0, \* Previous: / Current: of a balance-change message
     fan |-> FALSE,         \* the address is still in the cycle's good set
     same |-> FALSE]        \* the probe repeats the last successful one

(***************************************************************************)
(* History of the probes.                                                  *)
(***************************************************************************)
NoProbe == [balance |-> Null, tok |-> FALSE, owner |-> 0]

\* The record of a successful probe; owner is the cycle whose iteration for
\* it is still suspended at the balance-change message, 0 when it is over.
ProbeOf(ret, owner) ==
    [balance |-> ret.balance, tok |-> ret.tokenAccount # NoAccount,
     owner |-> owner]

\* ret repeats the last successful probe of address, whose processing is over
\* and after which the store of address was not written.
Repeats(address, ret) ==
    ret.balance # Null /\ prevOk[address] = ProbeOf(ret, 0)

\* A caller that writes the store whatever getTokenBalance returned.
RecordWrite(address, ret) ==
    [prevOk EXCEPT ![address] =
        IF ret.balance = Null THEN NoProbe ELSE ProbeOf(ret, 0)]

Fire(address, detected) == IF detected THEN fired \cup {address} ELSE fired

NeverProbed == [a \in ValidAddresses |-> Null]

\* getTokenBalance returned ret for address.
RecordReturn(address, ret) ==
    IF ret.balance = Null THEN lastOk
    ELSE [lastOk EXCEPT ![address] = ret.balance]

(***************************************************************************)
(* main(): the seed list, then the timer and the bot.                      *)
(***************************************************************************)
\* The next seed at or after k that new PublicKey accepts; the others are
\* skipped by the catch.
NextSeed(k) ==
    IF \E n \in k..Len(ADDRESSES_TO_CHECK) : Valid(ADDRESSES_TO_CHECK[n])
    THEN CHOOSE n \in k..Len(ADDRESSES_TO_CHECK) :
            /\ Valid(ADDRESSES_TO_CHECK[n])
            /\ \A m \in k..(n - 1) : ~Valid(ADDRESSES_TO_CHECK[m])
    ELSE Launched

Init ==
    /\ mainPc = NextSeed(1)
    /\ userAddresses = <<>>
    /\ lastBalances = EmptyMap
    /\ knownTokenAccounts = EmptyMap
    /\ cycles = [c \in 1..MaxCycles |-> CycleUnstarted]
    /\ adds = [h \in 1..MaxAdds |-> AddUnstarted]
    /\ alive = TRUE
    /\ out = Out("init", NullChat, "")
    /\ fired = {}
    /\ prevOk = [a \in ValidAddresses |-> NoProbe]
    /\ lastOk = NeverProbed

\* main: getTokenBalance(address, null) returns; the store is seeded.
SeedProbeReturn(res) ==
    /\ alive
    /\ mainPc < Launched
    /\ LET address == ADDRESSES_TO_CHECK[mainPc]
           p == ProbeStep(res, knownTokenAccounts, address, NullChat)
       IN  /\ lastBalances' = SetBalance(lastBalances, address, p.ret.balance)
           /\ knownTokenAccounts' =
                  SetKnown(knownTokenAccounts, address, p.ret.tokenAccount)
           /\ out' = [Out("seed", NullChat, address) EXCEPT
                         !.ledger = res.kind, !.returned = TRUE,
                         !.balance = p.ret.balance, !.detected = p.detected,
                         !.again = p.detected /\ address \in fired,
                         !.sent = IF p.await THEN "new" ELSE "none",
                         !.same = Repeats(address, p.ret)]
           /\ fired' = Fire(address, p.detected)
           /\ prevOk' = RecordWrite(address, p.ret)
           /\ lastOk' = RecordReturn(address, p.ret)
    /\ mainPc' = NextSeed(mainPc + 1)
    /\ UNCHANGED <<userAddresses, cycles, adds, alive>>

(***************************************************************************)
(* monitorBalances.                                                        *)
(***************************************************************************)
\* Mutant of ChatAt: the chat of the first entry, whatever entry the loop
\* is at.
ChatAtFirst(cy) == userAddresses[1].chat

ChatAt(cy) == userAddresses[cy.i].chat
AddrAt(cy) == userAddresses[cy.i].addrs[cy.j]

\* The for..of loops run on the live Map and Set: what comes after entry
\* (i, j) is decided by the registry as it is when the iteration ends.
NextPos(reg, i, j) ==
    IF i = 0 THEN (IF Len(reg) = 0 THEN <<0, 0>> ELSE <<1, 1>>)
    ELSE IF j < Len(reg[i].addrs) THEN <<i, j + 1>>
    ELSE IF i < Len(reg) THEN <<i + 1, 1>>
    ELSE <<0, 0>>

\* The iteration for entry (i, j) ended (i = 0: the cycle starts): the next
\* getTokenBalance is called and awaits getAccount, or the cycle completes.
Advance(i, j, snap, good, start) ==
    LET p == NextPos(userAddresses, i, j)
    IN  IF p = <<0, 0>> THEN CycleDone
        ELSE CycleRec("getAccount", p[1], p[2], 0, 0, snap, good, start)

\* History: how many addresses each entry of the registry holds.
Sizes(reg) == [k \in 1..Len(reg) |-> Len(reg[k].addrs)]

\* The chats that track an address.
Trackers(address) == {ch \in Chats : Tracked(userAddresses, ch, address)}

\* The addresses that several chats track.
SharedAddresses == {a \in ValidAddresses : Cardinality(Trackers(a)) >= 2}

\* History: the store of address was written by another invocation than
\* cycle c (0: than any cycle), so it leaves the good set of the cycles.
Disturb(cys, c, address) ==
    [d \in 1..MaxCycles |->
        IF d = c THEN cys[d] ELSE [cys[d] EXCEPT !.good = @ \ {address}]]

\* setInterval(monitorBalances, 10000) fires.
TimerFire(c) ==
    /\ alive
    /\ mainPc = Launched
    /\ cycles[c].pc = "unstarted"
    /\ \A b \in 1..(c - 1) : cycles[b].pc # "unstarted"
    /\ InFlight < MaxInFlight
    /\ cycles' = [cycles EXCEPT ![c] =
           Advance(0, 0,
                   [a \in ValidAddresses |->
                       IF a \in SharedAddresses
                       THEN LastBalance(lastBalances, a) ELSE 0],
                   SharedAddresses, Sizes(userAddresses))]
    /\ out' = Out("timer", NullChat, "")
    /\ UNCHANGED <<mainPc, userAddresses, lastBalances, knownTokenAccounts,
                   adds, alive, fired, prevOk, lastOk>>

\* monitorBalances from the return of getTokenBalance (ret) to the next await.
\* o is what the step has logged so far.
CycleAfterProbe(c, ret, o) ==
    LET cy == cycles[c]
        address == AddrAt(cy)
        lastBalance == LastBalance(lastBalances, address)
        good == IF ret.balance # Null /\ ret.balance # cy.snap[address]
                THEN cy.good ELSE cy.good \ {address}
        o2 == [o EXCEPT !.returned = TRUE, !.balance = ret.balance,
                        !.fan = address \in good,
                        !.same = Repeats(address, ret)]
    IN  /\ lastOk' = RecordReturn(address, ret)
        /\ IF ret.balance = Null
           THEN \* Skipping address ... due to balance fetch error
                /\ cycles' = [cycles EXCEPT ![c] =
                       Advance(cy.i, cy.j, cy.snap, good, cy.start)]
                /\ out' = o2
                /\ UNCHANGED <<knownTokenAccounts, prevOk>>
           ELSE /\ knownTokenAccounts' =
                       SetKnown(knownTokenAccounts, address, ret.tokenAccount)
                /\ IF Changed(ret.balance, lastBalance)
                   THEN \* sendMessage(chatId, message) is awaited
                        /\ cycles' = [cycles EXCEPT ![c] =
                               CycleRec("sendChange", cy.i, cy.j,
                                        ret.balance, lastBalance, cy.snap, good,
                                        cy.start)]
                        /\ out' = [o2 EXCEPT !.sent = "change",
                                      !.prev = lastBalance, !.cur = ret.balance]
                        /\ prevOk' = [prevOk EXCEPT ![address] = ProbeOf(ret, c)]
                   ELSE \* No balance change
                        /\ cycles' = [cycles EXCEPT ![c] =
                               Advance(cy.i, cy.j, cy.snap, good, cy.start)]
                        /\ out' = o2
                        /\ prevOk' = [prevOk EXCEPT ![address] = ProbeOf(ret, 0)]

\* getAccount of the cycle's current probe settles.
CycleProbeReturn(c, res) ==
    /\ alive
    /\ cycles[c].pc = "getAccount"
    /\ LET cy == cycles[c]
           address == AddrAt(cy)
           p == ProbeStep(res, knownTokenAccounts, address, ChatAt(cy))
           o == [Out("cycle", ChatAt(cy), address) EXCEPT
                    !.ledger = res.kind, !.detected = p.detected,
                    !.again = p.detected /\ address \in fired]
       IN  /\ fired' = Fire(address, p.detected)
           /\ IF p.await
              THEN /\ cycles' = [cycles EXCEPT ![c].pc = "sendNew",
                                               ![c].cur = p.ret.balance]
                   /\ out' = [o EXCEPT !.sent = "new"]
                   /\ UNCHANGED <<knownTokenAccounts, prevOk, lastOk>>
              ELSE CycleAfterProbe(c, p.ret, o)
    /\ UNCHANGED <<mainPc, userAddresses, lastBalances, adds, alive>>

\* The "New token account created" message of the cycle's probe settles.
CycleNewSent(c, ok) ==
    /\ alive
    /\ cycles[c].pc = "sendNew"
    /\ LET cy == cycles[c]
       IN  CycleAfterProbe(c, SendNewResult(ok, cy.cur, AddrAt(cy)),
                           Out("cycleNewSent", ChatAt(cy), AddrAt(cy)))
    /\ UNCHANGED <<mainPc, userAddresses, lastBalances, adds, alive, fired>>

\* The process ended: nothing of its state is left.
Exit ==
    /\ mainPc' = Launched
    /\ userAddresses' = <<>>
    /\ lastBalances' = EmptyMap
    /\ knownTokenAccounts' = EmptyMap
    /\ cycles' = [c \in 1..MaxCycles |-> CycleAborted]
    /\ adds' = [h \in 1..MaxAdds |-> AddDone]
    /\ alive' = FALSE
    /\ out' = Out("exit", NullChat, "")
    /\ fired' = {}
    /\ prevOk' = [a \in ValidAddresses |-> NoProbe]
    /\ lastOk' = NeverProbed

\* The iteration that was suspended at the balance-change message is over.
Release(c, address) ==
    [prevOk EXCEPT ![address] =
        IF @.owner = c THEN [@ EXCEPT !.owner = 0] ELSE NoProbe]

\* The balance-change message settles.  A rejection is not caught: it ends
\* monitorBalances, and as an unhandled rejection it may end the process.
CycleChangeSent(c, ok, exits) ==
    /\ alive
    /\ cycles[c].pc = "sendChange"
    /\ LET cy == cycles[c]
           address == AddrAt(cy)
       IN  IF ok
           THEN /\ lastBalances' = SetBalance(lastBalances, address, cy.cur)
                /\ cycles' = Disturb([cycles EXCEPT ![c] =
                                  Advance(cy.i, cy.j, cy.snap, cy.good, cy.start)],
                              c, address)
                /\ out' = Out("cycleChangeSent", ChatAt(cy), address)
                /\ prevOk' = Release(c, address)
                /\ UNCHANGED <<mainPc, userAddresses, knownTokenAccounts,
                               adds, alive, fired, lastOk>>
           ELSE IF exits
           THEN Exit
           ELSE /\ cycles' = [cycles EXCEPT ![c] = CycleAborted]
                /\ out' = Out("cycleChangeFailed", ChatAt(cy), address)
                /\ prevOk' = Release(c, address)
                /\ UNCHANGED <<mainPc, userAddresses, lastBalances,
                               knownTokenAccounts, adds, alive, fired, lastOk>>

(***************************************************************************)
(* bot.command('add').  The command always carries an argument here: the   *)
(* `!address` branch only replies with the usage line.                     *)
(***************************************************************************)
\* The handler from its start to its first await: the reply of line 49 for
\* an address new PublicKey accepts, the reply of the catch otherwise.
AddRequest(h, chatId, address) ==
    /\ alive
    /\ mainPc = Launched
    /\ adds[h].pc = "unstarted"
    /\ \A g \in 1..(h - 1) : adds[g].pc # "unstarted"
    /\ InFlight < MaxInFlight
    /\ chatId \in SeenChats \cup FreshChats
    /\ IF Valid(address)
       THEN /\ userAddresses' = Register(userAddresses, chatId, address)
            /\ adds' = [adds EXCEPT ![h] =
                   AddRec("reply49", chatId, address, 0,
                          ~Tracked(userAddresses, chatId, address))]
            /\ out' = [Out("add", chatId, address) EXCEPT !.sent = "added"]
       ELSE /\ adds' = [adds EXCEPT ![h] =
                   AddRec("reply60", chatId, address, 0, FALSE)]
            /\ out' = [Out("add", chatId, address) EXCEPT !.sent = "invalid"]
            /\ UNCHANGED userAddresses
    /\ UNCHANGED <<mainPc, lastBalances, knownTokenAccounts, cycles, alive,
                   fired, prevOk, lastOk>>

\* ctx.reply('Added address ...') settles: getTokenBalance is called, or the
\* rejection lands in the catch of line 58.
AddReplySent(h, ok) ==
    /\ alive
    /\ adds[h].pc = "reply49"
    /\ IF ok
       THEN /\ adds' = [adds EXCEPT ![h].pc = "getAccount"]
            /\ out' = Out("addReplySent", adds[h].chat, adds[h].addr)
       ELSE /\ adds' = [adds EXCEPT ![h].pc = "reply60"]
            /\ out' = [Out("addReplyFailed", adds[h].chat, adds[h].addr)
                          EXCEPT !.sent = "invalid"]
    /\ UNCHANGED <<mainPc, userAddresses, lastBalances, knownTokenAccounts,
                   cycles, alive, fired, prevOk, lastOk>>

\* The handler from the return of getTokenBalance (ret) to its end.
AddAfterProbe(h, ret, o) ==
    /\ lastBalances' = SetBalance(lastBalances, adds[h].addr, ret.balance)
    /\ knownTokenAccounts' =
           SetKnown(knownTokenAccounts, adds[h].addr, ret.tokenAccount)
    /\ adds' = [adds EXCEPT ![h] = AddDone]
    /\ out' = [o EXCEPT !.returned = TRUE, !.balance = ret.balance,
                        !.same = Repeats(adds[h].addr, ret)]
    /\ prevOk' = RecordWrite(adds[h].addr, ret)
    /\ lastOk' = RecordReturn(adds[h].addr, ret)
    /\ cycles' = Disturb(cycles, 0, adds[h].addr)

\* getAccount of the handler's probe settles.
AddProbeReturn(h, res) ==
    /\ alive
    /\ adds[h].pc = "getAccount"
    /\ LET a == adds[h]
           p == ProbeStep(res, knownTokenAccounts, a.addr, a.chat)
           o == [Out("addProbe", a.chat, a.addr) EXCEPT
                    !.ledger = res.kind, !.detected = p.detected,
                    !.again = p.detected /\ a.addr \in fired]
       IN  /\ fired' = Fire(a.addr, p.detected)
           /\ IF p.await
              THEN /\ adds' = [adds EXCEPT ![h].pc = "sendNew",
                                           ![h].cur = p.ret.balance]
                   /\ out' = [o EXCEPT !.sent = "new"]
                   /\ UNCHANGED <<lastBalances, knownTokenAccounts, prevOk,
                                  lastOk, cycles>>
              ELSE AddAfterProbe(h, p.ret, o)
    /\ UNCHANGED <<mainPc, userAddresses, alive>>

\* The "New token account created" message of the handler's probe settles.
AddNewSent(h, ok) ==
    /\ alive
    /\ adds[h].pc = "sendNew"
    /\ AddAfterProbe(h, SendNewResult(ok, adds[h].cur, adds[h].addr),
                     Out("addNewSent", adds[h].chat, adds[h].addr))
    /\ UNCHANGED <<mainPc, userAddresses, alive, fired>>

\* ctx.reply('Invalid Solana address ...') settles; a rejection goes to
\* bot.catch, which logs it.
AddInvalidSent(h) ==
    /\ alive
    /\ adds[h].pc = "reply60"
    /\ adds' = [adds EXCEPT ![h] = AddDone]
    /\ out' = Out("addInvalidSent", adds[h].chat, adds[h].addr)
    /\ UNCHANGED <<mainPc, userAddresses, lastBalances, knownTokenAccounts,
                   cycles, alive, fired, prevOk, lastOk>>

(***************************************************************************)
(* The program.                                                            *)
(***************************************************************************)
Next ==
    \/ \E res \in LedgerResults : SeedProbeReturn(res)
    \/ \E c \in 1..MaxCycles : TimerFire(c)
    \/ \E c \in 1..MaxCycles, res \in LedgerResults : CycleProbeReturn(c, res)
    \/ \E c \in 1..MaxCycles, ok \in BOOLEAN : CycleNewSent(c, ok)
    \/ \E c \in 1..MaxCycles, ok, exits \in BOOLEAN : CycleChangeSent(c, ok, exits)
    \/ \E h \in 1..MaxAdds, chatId \in Chats, address \in AddressArgs :
           AddRequest(h, chatId, address)
    \/ \E h \in 1..MaxAdds, ok \in BOOLEAN : AddReplySent(h, ok)
    \/ \E h \in 1..MaxAdds, res \in LedgerResults : AddProbeReturn(h, res)
    \/ \E h \in 1..MaxAdds, ok \in BOOLEAN : AddNewSent(h, ok)
    \/ \E h \in 1..MaxAdds : AddInvalidSent(h)

Spec == Init /\ [][Next]_vars

\* The awaited promise of a suspended monitorBalances invocation settles and
\* the invocation resumes.
CycleResumes(c) ==
    \/ \E res \in LedgerResults : CycleProbeReturn(c, res)
    \/ \E ok \in BOOLEAN : CycleNewSent(c, ok)
    \/ \E ok, exits \in BOOLEAN : CycleChangeSent(c, ok, exits)

\* The awaited promise of a suspended /add handler settles and it resumes.
AddResumes(h) ==
    \/ \E ok \in BOOLEAN : AddReplySent(h, ok)
    \/ \E res \in LedgerResults : AddProbeReturn(h, res)
    \/ \E ok \in BOOLEAN : AddNewSent(h, ok)
    \/ AddInvalidSent(h)

\* The program when every ledger fetch and every Telegram call settles: the
\* event loop then resumes whoever awaits it.
FairSpec ==
    /\ Spec
    /\ WF_vars(\E res \in LedgerResults : SeedProbeReturn(res))
    /\ \A c \in 1..MaxCycles : WF_vars(CycleResumes(c))
    /\ \A h \in 1..MaxAdds : WF_vars(AddResumes(h))

(***************************************************************************)
(* The claims.                                                             *)
(***************************************************************************)
RunningCycles == {c \in 1..MaxCycles : CycleActive(cycles[c])}

\* The step was a monitor cycle processing the return of getTokenBalance.
CycleProbeProcessed == out.op \in {"cycle", "cycleNewSent"} /\ out.returned

\* C1: at most one monitor cycle is running at any time, so no two cycles
\* have a probe of the same address in flight together.
C1_AtMostOneCycleRunning ==
    /\ Cardinality(RunningCycles) <= 1
    /\ \A c, d \in RunningCycles :
          c # d => AddrAt(cycles[c]) # AddrAt(cycles[d])

\* C2: when an address was tracked by several chats at the start of a cycle
\* and every probe of it in the cycle so far has succeeded with a balance
\* other than the one stored at the start of the cycle (nothing but the
\* cycle wrote its store, and no /add handler is pending), the chat of the
\* probe just processed is sent a balance-change message.
C2_ChangeSentToEverySubscriber ==
    ( /\ CycleProbeProcessed
      /\ out.fan
      /\ \A h \in 1..MaxAdds : ~AddActive(adds[h]) )
    => out.sent = "change"

\* C3: a step in which getAccount failed with a ledger error leaves
\* lastBalances and knownTokenAccounts as they were and sends nothing,
\* whichever path issued the probe.
C3_FailedProbeLeavesStore ==
    [][out'.ledger = "error" =>
          /\ lastBalances' = lastBalances
          /\ knownTokenAccounts' = knownTokenAccounts
          /\ out'.sent = "none"]_vars

\* C4: the new-account detection of an address never fires a second time.
C4_DetectionFiresOnce == ~out.again

\* C5: an /add handler is at the 'Invalid Solana address' reply only when
\* its address failed validation, and then it has not changed the registry.
C5_InvalidOnlyWhenInvalid ==
    \A h \in 1..MaxAdds :
        adds[h].pc = "reply60" =>
            ~Valid(adds[h].addr) /\ ~adds[h].mutated

\* C6: a rejected sendMessage never aborts a monitor cycle nor the process,
\* and the probe whose new-account message was rejected is still processed
\* as a successful probe.
C6_DeliveryFailureHarmless ==
    /\ alive
    /\ \A c \in 1..MaxCycles : cycles[c].pc # "aborted"
    /\ out.op = "cycleNewSent" => out.balance # Null

\* C7: no monitor cycle is at a pair that an /add handler has added and has
\* not yet seeded (its reply or its probe is still pending).
C7_SeededBeforeCycleProbes ==
    \A c \in RunningCycles, h \in 1..MaxAdds :
        ( /\ adds[h].pc \in {"reply49", "getAccount", "sendNew"}
          /\ adds[h].mutated )
        => ~( /\ ChatAt(cycles[c]) = adds[h].chat
              /\ AddrAt(cycles[c]) = adds[h].addr )

\* C8: when a monitor cycle processes a successful probe, with balance b, of
\* an address that has no entry in lastBalances, a balance-change message is
\* sent iff b # 0, and it reports previous balance 0 and current balance b.
C8_NoRecordComparedWithZero ==
    ( /\ CycleProbeProcessed
      /\ out.balance # Null
      /\ out.addr \notin DOMAIN lastBalances )
    => /\ (out.sent = "change") <=> (out.balance # 0)
       /\ out.sent = "change" => out.prev = 0 /\ out.cur = out.balance

\* C8, witness: a cycle probed an address without an entry, got a non-zero
\* balance and sent the balance-change message with previous balance 0.
C8_Witness ==
    /\ CycleProbeProcessed
    /\ out.balance = 1
    /\ out.addr \notin DOMAIN lastBalances
    /\ out.sent = "change"
    /\ out.prev = 0

\* C9: a successful probe that returns the balance and the token account of
\* the previous successful probe of the same address, with no write to the
\* store of that address in between, sends neither a balance-change nor a
\* new-account message.
C9_RepeatedProbeSilent ==
    out.same => ~out.detected /\ out.sent \notin {"new", "change"}

\* The registry holds no chat twice and no address twice for a chat.
NoDuplicates ==
    /\ \A k, n \in 1..Len(userAddresses) :
          userAddresses[k].chat = userAddresses[n].chat => k = n
    /\ \A k \in 1..Len(userAddresses) :
          \A m, n \in 1..Len(userAddresses[k].addrs) :
              userAddresses[k].addrs[m] = userAddresses[k].addrs[n] => m = n

\* C10: the registry never holds a pair twice, an /add of a tracked pair
\* leaves the registry as it was, and the handler of such an /add goes on
\* to its probe.
C10_ResubscribeProbesOnce ==
    [][alive' =>
        /\ NoDuplicates'
        /\ \A h \in 1..MaxAdds :
              /\ ( /\ adds[h].pc = "unstarted"
                   /\ adds'[h].pc = "reply49"
                   /\ ~adds'[h].mutated )
                 => userAddresses' = userAddresses
              /\ (adds[h].pc = "reply49" /\ ~adds[h].mutated)
                 => adds'[h].pc \in {"reply49", "getAccount"}]_vars

\* What the successful probe processed in the last step observed: the token
\* account, or none.
ObservedAccounts ==
    IF out.ledger = "found" \/ out.op \in {"cycleNewSent", "addNewSent"}
    THEN {Ata(out.addr)}
    ELSE {}

\* C11: a seed probe (chatId null) starts no Telegram call, whatever
\* getAccount did, and after a successful one lastBalances holds its balance
\* and knownTokenAccounts its token account (none when it found none) for
\* the seed address.
C11_SeedingSilentAndStored ==
    out.op = "seed" =>
        /\ out.sent = "none"
        /\ out.balance # Null =>
              /\ out.addr \in DOMAIN lastBalances
              /\ lastBalances[out.addr] = out.balance
              /\ PreviousAccounts(knownTokenAccounts, out.addr)
                     = ObservedAccounts

\* C11, witness: a seed probe found a token account that was not known, so
\* the detection fired, and nothing was sent; the store holds the account.
C11_Witness ==
    /\ out.op = "seed"
    /\ out.ledger = "found"
    /\ out.detected
    /\ out.sent = "none"
    /\ out.balance = 1
    /\ lastBalances[out.addr] = 1
    /\ knownTokenAccounts[out.addr] = {Ata(out.addr)}

\* C12: every monitor cycle that starts eventually completes the iteration
\* of the registry (it reaches the end of its loops, having probed each pair
\* once), whatever its probes and its messages do.
C12_CycleProbesEveryPair ==
    \A c \in 1..MaxCycles :
        CycleActive(cycles[c]) ~> (cycles[c].pc = "done")

\* Entry (i, j) of the registry was in it when its sizes were start.
InSnapshot(start, i, j) == i <= Len(start) /\ j <= start[i]

\* C13: a monitor cycle is only ever at a pair that the registry held when
\* the cycle started; a pair an /add handler added since is left to later
\* cycles.
C13_CycleIteratesSnapshot ==
    \A c \in RunningCycles :
        InSnapshot(cycles[c].start, cycles[c].i, cycles[c].j)

\* A probe of address is being processed: an invocation is between its call
\* of getTokenBalance(address, ...) and the end of what it does with the
\* result.
Processing(address) ==
    \/ \E c \in RunningCycles : AddrAt(cycles[c]) = address
    \/ \E h \in 1..MaxAdds :
          adds[h].pc \in {"getAccount", "sendNew"} /\ adds[h].addr = address

\* C14: when no probe of an address is being processed, its lastBalances
\* entry is the balance of the most recent successful probe of it.  (Stated
\* for the entries that hold a balance, and while no cycle was ended by a
\* rejected message.)
C14_StoreHoldsLatestProbe ==
    \A a \in DOMAIN lastBalances :
        ( /\ lastOk[a] # Null
          /\ lastBalances[a] # Null
          /\ ~Processing(a)
          /\ \A c \in 1..MaxCycles : cycles[c].pc # "aborted" )
        => lastBalances[a] = lastOk[a]

\* C15: after a successful probe of an address is processed,
\* knownTokenAccounts holds for it exactly what the probe observed: its
\* token account, or nothing when the probe found no account.
C15_KnownIsWhatProbeObserved ==
    (out.returned /\ out.balance # Null)
    => PreviousAccounts(knownTokenAccounts, out.addr) = ObservedAccounts

\* C16: when a monitor cycle's probe finds no token account while the stored
\* balance is b # 0, the probe returns balance 0, a balance-change message
\* with previous balance b and current balance 0 is sent, and when that
\* message settles the stored balance is 0.
C16_AbsentAccountIsZeroBalance ==
    [][/\ ( /\ out'.op = "cycle"
            /\ out'.ledger = "notFound"
            /\ LastBalance(lastBalances, out'.addr) # 0 )
          => /\ out'.balance = 0
             /\ out'.sent = "change"
             /\ out'.prev = LastBalance(lastBalances, out'.addr)
             /\ out'.cur = 0
       /\ ( /\ out.op = "cycle"
            /\ out.ledger = "notFound"
            /\ out.sent = "change"
            /\ \E c \in 1..MaxCycles :
                  /\ cycles[c].pc = "sendChange"
                  /\ ChatAt(cycles[c]) = out.chat
                  /\ AddrAt(cycles[c]) = out.addr
                  /\ cycles[c].cur = 0
                  /\ cycles'[c].pc # "sendChange" )
          => /\ out.addr \in DOMAIN lastBalances'
             /\ lastBalances'[out.addr] = 0]_vars

\* C17: a balance-change message reports as previous balance the balance of
\* the most recent earlier successful probe of the address (0 when there was
\* none) and as current balance the balance of the probe that triggered it.
C17_ChangeReportsLastProbe ==
    [][out'.sent = "change" =>
          /\ out'.prev = (IF lastOk[out'.addr] = Null
                          THEN 0 ELSE lastOk[out'.addr])
          /\ out'.cur = out'.balance]_vars

\* C18: a new-account or balance-change message is only ever started for,
\* and pending to, a chat that tracks the address it is about.
C18_NotifiedOnlyIfTracked ==
    /\ out.sent \in {"new", "change"} =>
           Tracked(userAddresses, out.chat, out.addr)
    /\ \A c \in 1..MaxCycles :
           cycles[c].pc \in {"sendNew", "sendChange"} =>
               Tracked(userAddresses, ChatAt(cycles[c]), AddrAt(cycles[c]))
    /\ \A h \in 1..MaxAdds :
           adds[h].pc = "sendNew" =>
               Tracked(userAddresses, adds[h].chat, adds[h].addr)

\* C18, witness: a monitor cycle started a balance-change message to the
\* chat of the pair it is at, which tracks the address, while another chat
\* is registered that does not track it.
C18_Witness ==
    /\ out.op = "cycle"
    /\ out.sent = "change"
    /\ Tracked(userAddresses, out.chat, out.addr)
    /\ \E ch \in Chats :
          /\ HasChat(userAddresses, ch)
          /\ ~Tracked(userAddresses, ch, out.addr)

\* C19: a step that moves the stored balance of an address from one balance
\* to a different one, while a chat other than the one the step acts for
\* tracks the address and has no /add handler pending, is the completion of
\* a balance-change message for that address.
C19_StoreMovesOnlyWithNotification ==
    [][\A a \in ValidAddresses :
          ( /\ a \in DOMAIN lastBalances
            /\ a \in DOMAIN lastBalances'
            /\ lastBalances[a] # Null
            /\ lastBalances'[a] # Null
            /\ lastBalances'[a] # lastBalances[a]
            /\ \E ch \in Trackers(a) :
                  /\ ch # out'.chat
                  /\ \A h \in 1..MaxAdds :
                        AddActive(adds[h]) => adds[h].chat # ch )
          => out'.op = "cycleChangeSent" /\ out'.addr = a]_vars

====
